---- MODULE Spec2Model ----
(***************************************************************************)
(* A model of cmd/sql/flow.go: one invocation of the `flow` command.  The  *)
(* state is the process-wide flag variables, the locals of the command     *)
(* handler and of buildFlagsAndMountDirs, and the record of the calls made *)
(* to sql.ExecuteCmdInDocker.  A step runs the code from one call of       *)
(* sql.ExecuteCmdInDocker to the next one (or to the handler's return).    *)
(*                                                                         *)
(* A Go string that the code inspects (a path, a positional argument, the  *)
(* output of a sub-invocation) is a sequence of one-character strings.     *)
(* Flag names, command tokens and the global config keys, which the code   *)
(* only passes on, are TLA+ strings.  A nil slice or map is the empty      *)
(* sequence or the empty function.                                         *)
(***************************************************************************)
EXTENDS Integers, Sequences, FiniteSets, TLC

\* The exit codes the container may return are 0..MaxExitCode.
MaxExitCode == 2

\* cobra.MaximumNArgs(1): a command takes at most one positional argument.
MaxArgs == 1

\* The longest path getAbsolutePath is given when it is called on its own.
MaxPathLen == 4

----------------------------------------------------------------------------
\* Strings

IsSpace(c) == c \in {" ", "\t", "\n", "\r"}

\* A variant that keeps the white space.
NoTrimSpace(s) == s

\* strings.TrimSpace: the string from its first to its last character that is
\* not white space.
TrimSpace(s) ==
    LET keep == {i \in 1..Len(s) : ~IsSpace(s[i])}
    IN  IF keep = {} THEN <<>>
        ELSE SubSeq(s, CHOOSE i \in keep : \A j \in keep : i <= j,
                       CHOOSE i \in keep : \A j \in keep : j <= i)

----------------------------------------------------------------------------
\* Paths (path/filepath on a Unix host)

\* filepath.IsAbs
IsAbs(path) == Len(path) > 0 /\ path[1] = "/"

\* The elements of a path between its separators, empty ones included:
\* elems holds those of path[1..i-1], the last one still open.
RECURSIVE SplitPath(_, _, _)
SplitPath(path, i, elems) ==
    IF i > Len(path) THEN elems
    ELSE SplitPath(path, i + 1,
                   IF path[i] = "/" THEN Append(elems, <<>>)
                   ELSE [elems EXCEPT ![Len(elems)] = Append(@, path[i])])

\* filepath.Clean's step for one element: "" and "." are dropped, ".."
\* removes the element before it, or is dropped at the root, or is kept.
CleanElem(stack, e, rooted) ==
    IF e = <<>> \/ e = <<".">> THEN stack
    ELSE IF e = <<".", ".">>
    THEN IF stack # <<>> /\ stack[Len(stack)] # <<".", ".">>
         THEN SubSeq(stack, 1, Len(stack) - 1)
         ELSE IF rooted THEN stack ELSE Append(stack, e)
    ELSE Append(stack, e)

RECURSIVE CleanElems(_, _, _)
CleanElems(elems, rooted, stack) ==
    IF elems = <<>> THEN stack
    ELSE CleanElems(Tail(elems), rooted, CleanElem(stack, Head(elems), rooted))

RECURSIVE JoinElems(_)
JoinElems(elems) ==
    IF elems = <<>> THEN <<>>
    ELSE elems[1] \o (IF Len(elems) = 1 THEN <<>> ELSE <<"/">> \o JoinElems(Tail(elems)))

\* The cleaned path of the cleaned elements: a rooted path keeps its root, an
\* empty relative path is ".".
CleanedPath(rooted, body) ==
    IF rooted THEN <<"/">> \o body
    ELSE IF body = <<>> THEN <<".">> ELSE body

\* filepath.Clean
Clean(path) ==
    CleanedPath(IsAbs(path),
                JoinElems(CleanElems(SplitPath(path, 1, <<<<>>>>), IsAbs(path), <<>>)))

\* filepath.Join(dir, path): empty elements are ignored, the result is cleaned.
Join(dir, path) ==
    IF dir = <<>> /\ path = <<>> THEN <<>>
    ELSE Clean(IF dir = <<>> THEN path
               ELSE IF path = <<>> THEN dir
               ELSE dir \o <<"/">> \o path)

\* What os.Getwd returns when it succeeds.
Cwd == <<"/", "w">>

----------------------------------------------------------------------------
\* Errors

NoErr ==
    [kind |-> "nil", cmd |-> <<>>, code |-> 0, path |-> <<>>, arg |-> "", cause |-> ""]

\* fmt.Errorf("error getting current directory %w", err)
ErrGetwd == [NoErr EXCEPT !.kind = "getwd", !.cause = "getwd error"]

\* fmt.Errorf("error creating project directory %s: %w", projectDir, err)
ErrMkdir(dir) == [NoErr EXCEPT !.kind = "mkdir", !.path = dir, !.cause = "mkdir error"]

\* fmt.Errorf("error running %v: %w", cmdString, err)
ErrRunning(cmdString, cause) ==
    [NoErr EXCEPT !.kind = "running", !.cmd = cmdString, !.cause = cause]

\* sql.DockerNonZeroExitCodeError(exitCode)
DockerNonZeroExitCodeError(exitCode) ==
    [NoErr EXCEPT !.kind = "nonzero", !.code = exitCode]

\* sql.ArgNotSetError(name)
ArgNotSetError(name) == [NoErr EXCEPT !.kind = "argnotset", !.arg = name]

\* The error sql.ConvertReadCloserToString returns, passed on as it is.
ErrDecode == [NoErr EXCEPT !.kind = "decode", !.cause = "read error"]

----------------------------------------------------------------------------
\* The fixed names of flow.go

configCommandString == <<"config">>

\* A variant with one more key.
FourConfigKeys == <<"airflow_home", "airflow_dags_folder", "data_dir", "plugins_dir">>

\* A variant with the first two keys in the other order.
SwappedConfigKeys == <<"airflow_dags_folder", "airflow_home", "data_dir">>

globalConfigKeys == <<"airflow_home", "airflow_dags_folder", "data_dir">>

\* The default of the --env flag, "default".
DefaultEnvironment == <<"d", "e", "f", "a", "u", "l", "t">>

\* The default of the --project-dir flag, ".".
DefaultProjectDir == <<".">>

\* The bare tokens the handlers append to the positional arguments.
VerboseToken == <<"-", "-", "v", "e", "r", "b", "o", "s", "e">>

GenerateTasksToken ==
    <<"-", "-", "g", "e", "n", "e", "r", "a", "t", "e", "-", "t", "a", "s", "k", "s">>

NoGenerateTasksToken == <<"-", "-", "n", "o", "-">> \o SubSeq(GenerateTasksToken, 3, 16)

----------------------------------------------------------------------------
\* Flag maps (map[string]string)

EmptyFlags == [name \in {} |-> <<>>]

SetFlag(flags, name, value) ==
    [n \in DOMAIN flags \cup {name} |-> IF n = name THEN value ELSE flags[n]]

----------------------------------------------------------------------------
\* getAbsolutePath, createProjectDir, getBaseMountDirs.  wdOk says whether
\* os.Getwd succeeds, mkdirOk whether os.MkdirAll does.

\* A variant that asks for the working directory whatever the path is.
getAbsolutePathAlwaysJoining(path, wdOk) ==
    IF ~wdOk
    THEN [path |-> <<>>, err |-> ErrGetwd]
    ELSE [path |-> Join(Cwd, path), err |-> NoErr]

getAbsolutePath(path, wdOk) ==
    IF ~IsAbs(path) \/ path = <<>> \/ path = <<".">>
    THEN IF ~wdOk
         THEN [path |-> <<>>, err |-> ErrGetwd]
         ELSE [path |-> Join(Cwd, path), err |-> NoErr]
    ELSE [path |-> path, err |-> NoErr]

\* Lines 45-56 of createProjectDir, abs being what getAbsolutePath returned.
MakeProjectDir(abs, mkdirOk) ==
    IF abs.err # NoErr THEN [mountDir |-> <<>>, err |-> abs.err]
    ELSE IF ~mkdirOk THEN [mountDir |-> <<>>, err |-> ErrMkdir(abs.path)]
    ELSE [mountDir |-> abs.path, err |-> NoErr]

createProjectDir(dir, wdOk, mkdirOk) ==
    MakeProjectDir(getAbsolutePath(dir, wdOk), mkdirOk)

\* Lines 61-65 of getBaseMountDirs, made being what createProjectDir returned.
BaseMountDirs(made) ==
    IF made.err # NoErr THEN [mountDirs |-> <<>>, err |-> made.err]
    ELSE [mountDirs |-> <<made.mountDir>>, err |-> NoErr]

getBaseMountDirs(dir, wdOk, mkdirOk) ==
    BaseMountDirs(createProjectDir(dir, wdOk, mkdirOk))

\* A variant that puts the directory in front of the list.
PrependMountDir(dirs, dir) == <<dir>> \o dirs

\* append(mountDirs, dir)
AppendMountDir(dirs, dir) == Append(dirs, dir)

----------------------------------------------------------------------------
\* buildFlagsAndMountDirs

\* The five booleans of one call of buildFlagsAndMountDirs.
Want(pd, ah, adf, dd, g) ==
    [setProjectDir |-> pd, setAirflowHome |-> ah, setAirflowDagsFolder |-> adf,
     setDataDir |-> dd, mountGlobalDirs |-> g]

AllWants ==
    [setProjectDir : BOOLEAN, setAirflowHome : BOOLEAN, setAirflowDagsFolder : BOOLEAN,
     setDataDir : BOOLEAN, mountGlobalDirs : BOOLEAN]

\* A variant in which validate asks for what generate and run ask for.
WantOfValidateAsRun(command) ==
    CASE command \in {"about", "version"} -> Want(FALSE, FALSE, FALSE, FALSE, FALSE)
      [] command = "init" -> Want(FALSE, TRUE, TRUE, TRUE, FALSE)
      [] command = "config" -> Want(TRUE, FALSE, FALSE, FALSE, FALSE)
      [] command \in {"validate", "generate", "run"} -> Want(TRUE, FALSE, FALSE, FALSE, TRUE)

\* The arguments each command handler gives buildFlagsAndMountDirs.
WantOf(command) ==
    CASE command \in {"about", "version"} -> Want(FALSE, FALSE, FALSE, FALSE, FALSE)
      [] command = "init" -> Want(FALSE, TRUE, TRUE, TRUE, FALSE)
      [] command = "config" -> Want(TRUE, FALSE, FALSE, FALSE, FALSE)
      [] command = "validate" -> Want(FALSE, FALSE, FALSE, FALSE, FALSE)
      [] command \in {"generate", "run"} -> Want(TRUE, FALSE, FALSE, FALSE, TRUE)

\* return nil, nil, err
BuildFail(err) == [flags |-> EmptyFlags, mountDirs |-> <<>>, err |-> err]

\* A variant that also mounts the directory it sets as the flag.
BuildHeadMountingFlag(dir, w, base, abs) ==
    IF base.err # NoErr
    THEN [flags |-> EmptyFlags, mountDirs |-> <<>>, projectDir |-> dir, err |-> base.err]
    ELSE IF w.setProjectDir
    THEN IF abs.err # NoErr
         THEN [flags |-> EmptyFlags, mountDirs |-> <<>>, projectDir |-> dir,
               err |-> abs.err]
         ELSE [flags |-> SetFlag(EmptyFlags, "project-dir", abs.path),
               mountDirs |-> Append(base.mountDirs, abs.path),
               projectDir |-> abs.path, err |-> NoErr]
    ELSE [flags |-> EmptyFlags, mountDirs |-> base.mountDirs, projectDir |-> dir,
          err |-> NoErr]

\* Lines 86-98: the base mount directories and the project-dir flag, base
\* being what getBaseMountDirs returned and abs what getAbsolutePath returns
\* for the project directory.  The parameter projectDir is overwritten by its
\* absolute path only when setProjectDir is set.
BuildHead(dir, w, base, abs) ==
    IF base.err # NoErr
    THEN [flags |-> EmptyFlags, mountDirs |-> <<>>, projectDir |-> dir, err |-> base.err]
    ELSE IF w.setProjectDir
    THEN IF abs.err # NoErr
         THEN [flags |-> EmptyFlags, mountDirs |-> <<>>, projectDir |-> dir,
               err |-> abs.err]
         ELSE [flags |-> SetFlag(EmptyFlags, "project-dir", abs.path),
               mountDirs |-> base.mountDirs, projectDir |-> abs.path, err |-> NoErr]
    ELSE [flags |-> EmptyFlags, mountDirs |-> base.mountDirs, projectDir |-> dir,
          err |-> NoErr]

\* Lines 101-102: the flags of the nested config queries.
ConfigFlags(dir) == SetFlag(EmptyFlags, "project-dir", dir)

\* A variant whose loop goes on after an error.
QueryNeverAborts(err) == FALSE

\* A variant whose loop stops at a transport error only.
QueryAbortsOnTransportError(err) == err.kind = "running"

\* Line 105: the loop over the global config keys stops at the first error.
QueryAborts(err) == err # NoErr

\* A variant that returns the mount directories built so far with the error.
AbortBuildKeepingDirs(dirs, err) == [flags |-> EmptyFlags, mountDirs |-> dirs, err |-> err]

\* Line 106: return nil, nil, err; dirs, the list appendConfigKeyMountDir
\* returned with the error, is dropped.
AbortBuild(dirs, err) == BuildFail(err)

\* A variant whose errors name the key that was queried.
appendConfigKeyMountDirNamingKey(configKey, dirs, o) ==
    IF o.failed
    THEN [mountDirs |-> dirs,
          err |-> ErrRunning(configCommandString \o <<configKey>>, o.cause)]
    ELSE IF o.exitCode # 0
    THEN [mountDirs |-> dirs,
          err |-> [DockerNonZeroExitCodeError(o.exitCode) EXCEPT !.arg = configKey]]
    ELSE IF o.decodeFailed
    THEN [mountDirs |-> dirs, err |-> [ErrDecode EXCEPT !.arg = configKey]]
    ELSE [mountDirs |-> Append(dirs, TrimSpace(o.output)), err |-> NoErr]

\* A variant that appends what it has read also when the exit code is not 0
\* or the output cannot be decoded.
appendConfigKeyMountDirAppendingAnyway(configKey, dirs, o) ==
    IF o.failed
    THEN [mountDirs |-> dirs, err |-> ErrRunning(configCommandString, o.cause)]
    ELSE IF o.exitCode # 0
    THEN [mountDirs |-> Append(dirs, TrimSpace(o.output)),
          err |-> DockerNonZeroExitCodeError(o.exitCode)]
    ELSE IF o.decodeFailed
    THEN [mountDirs |-> Append(dirs, TrimSpace(o.output)), err |-> ErrDecode]
    ELSE [mountDirs |-> Append(dirs, TrimSpace(o.output)), err |-> NoErr]

\* Lines 71-82: what appendConfigKeyMountDir returns once the sub-invocation
\* has returned outcome o.
appendConfigKeyMountDir(configKey, dirs, o) ==
    IF o.failed
    THEN [mountDirs |-> dirs, err |-> ErrRunning(configCommandString, o.cause)]
    ELSE IF o.exitCode # 0
    THEN [mountDirs |-> dirs, err |-> DockerNonZeroExitCodeError(o.exitCode)]
    ELSE IF o.decodeFailed
    THEN [mountDirs |-> dirs, err |-> ErrDecode]
    ELSE [mountDirs |-> AppendMountDir(dirs, TrimSpace(o.output)), err |-> NoErr]

\* One of lines 111-118, 120-127, 129-136: a local directory that is requested
\* and not empty is resolved, set as a flag and appended to the mounts.
\* A variant that does not look whether the directory is empty.
AddLocalDirEvenIfEmpty(acc, requested, dir, name, abs) ==
    IF acc.err # NoErr THEN acc
    ELSE IF requested
    THEN IF abs.err # NoErr THEN BuildFail(abs.err)
         ELSE [flags |-> SetFlag(acc.flags, name, abs.path),
               mountDirs |-> Append(acc.mountDirs, abs.path),
               err |-> NoErr]
    ELSE acc

\* abs is what getAbsolutePath returns for dir; acc is the flags and mounts
\* so far, or the error that has already ended the function.
AddLocalDir(acc, requested, dir, name, abs) ==
    IF acc.err # NoErr THEN acc
    ELSE IF requested /\ dir # <<>>
    THEN IF abs.err # NoErr THEN BuildFail(abs.err)
         ELSE [flags |-> SetFlag(acc.flags, name, abs.path),
               mountDirs |-> AppendMountDir(acc.mountDirs, abs.path),
               err |-> NoErr]
    ELSE acc

\* Lines 111-138: airflow-home, then airflow-dags-folder, then data-dir.
LocalDirs(f, dirs, w, home, dags, data, wdOk) ==
    AddLocalDir(
        AddLocalDir(
            AddLocalDir([flags |-> f, mountDirs |-> dirs, err |-> NoErr],
                        w.setAirflowHome, home, "airflow-home",
                        getAbsolutePath(home, wdOk[1])),
            w.setAirflowDagsFolder, dags, "airflow-dags-folder",
            getAbsolutePath(dags, wdOk[2])),
        w.setDataDir, data, "data-dir", getAbsolutePath(data, wdOk[3]))

----------------------------------------------------------------------------
\* executeCmd and executeHelp

\* A variant that puts --debug after the command's name.
CmdStringDebugLast(name, dbg) == IF dbg THEN <<name, "--debug">> ELSE <<name>>

\* Lines 142-145.
CmdString(name, dbg) == IF dbg THEN <<"--debug", name>> ELSE <<name>>

\* A variant that looks at the exit code before the error.
executeCmdErrExitCodeFirst(cmdString, o) ==
    IF o.exitCode # 0 THEN DockerNonZeroExitCodeError(o.exitCode)
    ELSE IF o.failed THEN ErrRunning(cmdString, o.cause)
    ELSE NoErr

\* A variant that reports every non-zero exit code as 1.
executeCmdErrCodeOne(cmdString, o) ==
    IF o.failed THEN ErrRunning(cmdString, o.cause)
    ELSE IF o.exitCode # 0 THEN DockerNonZeroExitCodeError(1)
    ELSE NoErr

\* Lines 147-154: the error executeCmd returns for outcome o.
executeCmdErr(cmdString, o) ==
    IF o.failed THEN ErrRunning(cmdString, o.cause)
    ELSE IF o.exitCode # 0 THEN DockerNonZeroExitCodeError(o.exitCode)
    ELSE NoErr

\* A variant that returns the error instead of panicking.
executeHelpOutcomeReturning(cmdString, o) ==
    IF o.failed THEN [kind |-> "err", err |-> ErrRunning(cmdString, o.cause)]
    ELSE IF o.exitCode # 0
    THEN [kind |-> "err", err |-> DockerNonZeroExitCodeError(o.exitCode)]
    ELSE [kind |-> "ok", err |-> NoErr]

\* Lines 284-289: executeHelp panics where executeCmd returns an error.
executeHelpOutcome(cmdString, o) ==
    IF o.failed THEN [kind |-> "panic", err |-> ErrRunning(cmdString, o.cause)]
    ELSE IF o.exitCode # 0
    THEN [kind |-> "panic", err |-> DockerNonZeroExitCodeError(o.exitCode)]
    ELSE [kind |-> "ok", err |-> NoErr]

\* How a handler ends with the error (or nil) it returns.
Returned(err) == [kind |-> IF err = NoErr THEN "ok" ELSE "err", err |-> err]

----------------------------------------------------------------------------
\* sql.ExecuteCmdInDocker and sql.ConvertReadCloserToString

\* A call of sql.ExecuteCmdInDocker that has not returned yet.
Call(cmdString, cmdArgs, cmdFlags, dirs, returnOutput) ==
    [cmd |-> cmdString, args |-> cmdArgs, flags |-> cmdFlags, mountDirs |-> dirs,
     returnOutput |-> returnOutput, returned |-> FALSE,
     failed |-> FALSE, cause |-> "", exitCode |-> 0, decodeFailed |-> FALSE,
     output |-> <<>>]

\* The call once it returned outcome o.
ReturnedCall(c, o) ==
    [c EXCEPT !.returned = TRUE, !.failed = o.failed, !.cause = o.cause,
              !.exitCode = o.exitCode, !.decodeFailed = o.decodeFailed,
              !.output = o.output]

\* What the container may write as the value of a config key.
Outputs == {<<"/", "a", "\n">>, <<" ", "b", " ">>}

\* The outcomes of a call whose output is not read: a transport error or
\* not, and an exit code.
ExecOutcomes ==
    {[failed |-> f, cause |-> IF f THEN "mock error" ELSE "", exitCode |-> c,
      decodeFailed |-> FALSE, output |-> <<>>] : f \in BOOLEAN, c \in 0..MaxExitCode}

\* The outcomes of a nested config query: as above, and when the call
\* succeeded the output and whether decoding it fails.
QueryOutcomes ==
    {o \in ExecOutcomes : o.failed \/ o.exitCode # 0}
    \cup {[failed |-> FALSE, cause |-> "", exitCode |-> 0, decodeFailed |-> TRUE,
           output |-> <<>>]}
    \cup {[failed |-> FALSE, cause |-> "", exitCode |-> 0, decodeFailed |-> FALSE,
           output |-> out] : out \in Outputs}

----------------------------------------------------------------------------
\* State

VARIABLES
    \* the process-wide flag variables (lines 13-24)
    environment, connection, airflowHome, airflowDagsFolder, dataDir, projectDir,
    generateTasks, noGenerateTasks, verbose, debug,
    \* the command that runs: a sub-command's name, "help" (executeHelp) or
    \* "build" (buildFlagsAndMountDirs called on its own, as its test does)
    op,
    \* the handler's positional arguments (executeHelp's cmdString for "help")
    args,
    \* the locals of buildFlagsAndMountDirs
    want, buildProjectDir, flags, mountDirs, configFlags, keyIdx,
    \* what buildFlagsAndMountDirs returned
    composed,
    \* every call of sql.ExecuteCmdInDocker so far, in the order made
    calls,
    \* the directories os.MkdirAll has made
    created,
    \* where the invocation is: "start", "query", "dispatch", "help", "done"
    pc,
    \* how the invocation ended
    ret,
    \* what appendConfigKeyMountDir returned last to line 104, and for which
    \* key (0: it has not returned yet)
    appended,
    \* a call of getAbsolutePath on its own: its argument, whether os.Getwd
    \* succeeds, and what it returned
    resolve

globals ==
    <<environment, connection, airflowHome, airflowDagsFolder, dataDir,
      generateTasks, noGenerateTasks, verbose, debug>>

vars ==
    <<environment, connection, airflowHome, airflowDagsFolder, dataDir, projectDir,
      generateTasks, noGenerateTasks, verbose, debug, op, args, want, buildProjectDir,
      flags, mountDirs, configFlags, keyIdx, composed, calls, created, pc, ret,
      appended, resolve>>

Commands == {"about", "version", "init", "config", "validate", "generate", "run"}

Ops == Commands \cup {"help", "build"}

\* The values the inputs are drawn from.
PathInputs == {<<>>, <<".">>, <<"p", "/">>, <<"/", "p">>}

HomeInputs == {<<>>, <<"h">>, <<"/", "h">>}

DagsInputs == {<<>>, <<"g">>, <<"/", "g">>}

DataInputs == {<<>>, <<"d">>, <<"/", "h">>}

EnvInputs == {<<>>, DefaultEnvironment, <<"d", "e", "v">>}

ConnectionInputs == {<<>>, <<"c">>}

\* A config key or a workflow name given on the command line.
NameInputs == {<<"n">>}

HelpInputs == {<<>>, <<"init", "--help">>}

\* Sequences of at most n elements of S.
SeqUpTo(S, n) == UNION {[1..k -> S] : k \in 0..n}

NoWant == Want(FALSE, FALSE, FALSE, FALSE, FALSE)

NotComposed == [state |-> "none", flags |-> EmptyFlags, mountDirs |-> <<>>, err |-> NoErr]

NotReturned == [kind |-> "none", err |-> NoErr]

\* appendConfigKeyMountDir has not returned.
NotAppended == [key |-> 0, mountDirs |-> <<>>, err |-> NoErr]

\* No call of getAbsolutePath on its own.
NoResolve == [state |-> "none", path |-> <<>>, wdOk |-> TRUE, out |-> <<>>, err |-> NoErr]

\* The state when the handler is entered: cobra has parsed the command line
\* into the flag variables (each flag only where its command declares it,
\* lines 291-388) and the positional arguments.
Init ==
    /\ op \in Ops
    /\ debug \in (IF op = "build" THEN {FALSE} ELSE BOOLEAN)
    /\ args \in (CASE op = "help" -> HelpInputs
                   [] op = "build" -> {<<>>}
                   [] op \in {"init", "validate"} -> SeqUpTo(PathInputs, MaxArgs)
                   [] OTHER -> SeqUpTo(NameInputs, MaxArgs))
    /\ projectDir \in (IF op \in {"config", "generate", "run", "build"}
                       THEN PathInputs ELSE {DefaultProjectDir})
    /\ airflowHome \in (IF op \in {"init", "build"} THEN HomeInputs ELSE {<<>>})
    /\ airflowDagsFolder \in (IF op \in {"init", "build"} THEN DagsInputs ELSE {<<>>})
    /\ dataDir \in (IF op \in {"init", "build"} THEN DataInputs ELSE {<<>>})
    /\ environment \in (IF op \in {"config", "validate", "generate", "run"}
                        THEN EnvInputs ELSE {DefaultEnvironment})
    /\ connection \in (IF op = "validate" THEN ConnectionInputs ELSE {<<>>})
    /\ verbose \in (IF op \in {"validate", "generate", "run"} THEN BOOLEAN ELSE {FALSE})
    /\ generateTasks \in (IF op \in {"generate", "run"} THEN BOOLEAN ELSE {FALSE})
    \* MarkFlagsMutuallyExclusive("generate-tasks", "no-generate-tasks")
    /\ noGenerateTasks \in (IF op \in {"generate", "run"} /\ ~generateTasks
                            THEN BOOLEAN ELSE {FALSE})
    /\ want \in (IF op = "build" THEN AllWants ELSE {NoWant})
    /\ buildProjectDir = <<>>
    /\ flags = EmptyFlags
    /\ mountDirs = <<>>
    /\ configFlags = EmptyFlags
    /\ keyIdx = 0
    /\ composed = NotComposed
    /\ calls = <<>>
    /\ created = {}
    /\ pc = "start"
    /\ ret = NotReturned
    /\ appended = NotAppended
    /\ resolve = NoResolve

----------------------------------------------------------------------------
\* The handlers' code after buildFlagsAndMountDirs has succeeded

\* A variant in which init and validate pass on the arguments they were given.
HandlerArgsAsGiven(command, cliArgs, dirs) ==
    LET gen == (IF generateTasks THEN <<GenerateTasksToken>> ELSE <<>>)
               \o (IF noGenerateTasks THEN <<NoGenerateTasksToken>> ELSE <<>>)
        verb == IF verbose THEN <<VerboseToken>> ELSE <<>>
    IN  CASE command = "init" -> cliArgs
          [] command = "validate" -> cliArgs \o verb
          [] command = "generate" -> cliArgs \o gen \o verb
          [] command = "run" -> cliArgs \o verb \o gen
          [] OTHER -> cliArgs

\* The positional arguments the handler gives executeCmd.
HandlerArgs(command, cliArgs, dirs) ==
    LET gen == (IF generateTasks THEN <<GenerateTasksToken>> ELSE <<>>)
               \o (IF noGenerateTasks THEN <<NoGenerateTasksToken>> ELSE <<>>)
        verb == IF verbose THEN <<VerboseToken>> ELSE <<>>
    IN  CASE command = "init" -> <<dirs[1]>>
          [] command = "validate" -> <<dirs[1]>> \o verb
          [] command = "generate" -> cliArgs \o gen \o verb
          [] command = "run" -> cliArgs \o verb \o gen
          [] OTHER -> cliArgs

\* A variant that forwards the environment even when it is empty.
HandlerFlagsEnvAlways(command, f) ==
    CASE command \in {"config", "generate", "run"} -> SetFlag(f, "env", environment)
      [] command = "validate" ->
            IF connection # <<>>
            THEN SetFlag(SetFlag(f, "env", environment), "connection", connection)
            ELSE SetFlag(f, "env", environment)
      [] OTHER -> f

\* The flags the handler gives executeCmd.
HandlerFlags(command, f) ==
    LET withEnv == IF environment # <<>> THEN SetFlag(f, "env", environment) ELSE f
    IN  CASE command \in {"config", "generate", "run"} -> withEnv
          [] command = "validate" ->
                IF connection # <<>> THEN SetFlag(withEnv, "connection", connection)
                ELSE withEnv
          [] OTHER -> f

----------------------------------------------------------------------------
\* Steps

\* A variant that gives every query the project directory alone.
InvokeQueryWithBaseOnly(k, cf, f, dirs, callsNow) ==
    /\ calls' = Append(callsNow, Call(configCommandString, <<globalConfigKeys[k]>>, cf,
                                      <<dirs[1]>>, TRUE))
    /\ flags' = f
    /\ mountDirs' = dirs
    /\ pc' = "query"
    /\ UNCHANGED <<composed, args, ret>>

\* appendConfigKeyMountDir calls sql.ExecuteCmdInDocker for the k-th global
\* config key (lines 69-70) and waits for it.
InvokeQuery(k, cf, f, dirs, callsNow) ==
    /\ calls' = Append(callsNow, Call(configCommandString, <<globalConfigKeys[k]>>, cf, dirs, TRUE))
    /\ flags' = f
    /\ mountDirs' = dirs
    /\ pc' = "query"
    /\ UNCHANGED <<composed, args, ret>>

\* buildFlagsAndMountDirs returns r to the handler, which returns the error
\* or goes on to executeCmd (lines 157-280); executeCmd calls
\* sql.ExecuteCmdInDocker (line 146) and waits for it.
ReturnFromBuild(r, callsNow) ==
    /\ composed' = [state |-> IF r.err = NoErr THEN "ok" ELSE "err",
                    flags |-> r.flags, mountDirs |-> r.mountDirs, err |-> r.err]
    /\ IF r.err # NoErr \/ op = "build"
       THEN /\ ret' = Returned(r.err)
            /\ pc' = "done"
            /\ calls' = callsNow
            /\ flags' = r.flags
            /\ mountDirs' = r.mountDirs
            /\ args' = args
       ELSE /\ args' = HandlerArgs(op, args, r.mountDirs)
            /\ flags' = HandlerFlags(op, r.flags)
            /\ mountDirs' = r.mountDirs
            /\ calls' = Append(callsNow, Call(CmdString(op, debug), args', flags', r.mountDirs, FALSE))
            /\ pc' = "dispatch"
            /\ ret' = ret

\* buildFlagsAndMountDirs(dir, w...) from its entry to its first nested
\* config query, or to its return when it makes none.
CallBuild(dir, w) ==
    \E wdOk1, wdOk2, mkdirOk \in BOOLEAN, wdOk \in [1..3 -> BOOLEAN] :
      \E base \in {getBaseMountDirs(dir, wdOk1, mkdirOk)} :
        \E h \in {BuildHead(dir, w, base, getAbsolutePath(dir, wdOk2))} :
            /\ want' = w
            /\ buildProjectDir' = h.projectDir
            /\ created' = IF base.err = NoErr THEN created \cup {base.mountDirs[1]}
                          ELSE created
            /\ IF h.err # NoErr
               THEN /\ ReturnFromBuild(BuildFail(h.err), calls)
                    /\ UNCHANGED <<configFlags, keyIdx>>
               ELSE IF w.mountGlobalDirs
               THEN /\ configFlags' = ConfigFlags(h.projectDir)
                    /\ keyIdx' = 1
                    /\ InvokeQuery(1, ConfigFlags(h.projectDir), h.flags, h.mountDirs, calls)
               ELSE /\ ReturnFromBuild(
                           LocalDirs(h.flags, h.mountDirs, w, airflowHome,
                                     airflowDagsFolder, dataDir, wdOk), calls)
                    /\ UNCHANGED <<configFlags, keyIdx>>

\* A variant that never finds the argument missing.
ArgNeverMissing(cliArgs) == FALSE

\* Lines 182, 227, 255: the required positional argument is missing.
ArgMissing(cliArgs) == Len(cliArgs) < 1

\* The handler returns err without having called buildFlagsAndMountDirs.
ReturnEarly(err) ==
    /\ ret' = Returned(err)
    /\ pc' = "done"
    /\ UNCHANGED <<want, buildProjectDir, flags, mountDirs, configFlags, keyIdx,
                   composed, calls, created, args>>

\* A variant that leaves the project directory as the flags set it.
HandlerProjectDirIgnoringArgs(cliArgs, dir) == dir

\* Lines 166-168 and 199-201: the positional argument, when there is one,
\* is assigned to projectDir before buildFlagsAndMountDirs is called.
HandlerProjectDir(cliArgs, dir) == IF Len(cliArgs) > 0 THEN cliArgs[1] ELSE dir

\* executeBase (about, version)
ExecuteBase ==
    /\ pc = "start"
    /\ op \in {"about", "version"}
    /\ CallBuild(projectDir, WantOf(op))
    /\ UNCHANGED <<appended, resolve, globals, projectDir, op>>

\* executeInit
ExecuteInit ==
    /\ pc = "start"
    /\ op = "init"
    /\ projectDir' = HandlerProjectDir(args, projectDir)
    /\ CallBuild(HandlerProjectDir(args, projectDir), WantOf(op))
    /\ UNCHANGED <<appended, resolve, globals, op>>

\* executeConfig
ExecuteConfig ==
    /\ pc = "start"
    /\ op = "config"
    /\ IF ArgMissing(args)
       THEN ReturnEarly(ArgNotSetError("key"))
       ELSE CallBuild(projectDir, WantOf(op))
    /\ UNCHANGED <<appended, resolve, globals, projectDir, op>>

\* executeValidate
ExecuteValidate ==
    /\ pc = "start"
    /\ op = "validate"
    /\ projectDir' = HandlerProjectDir(args, projectDir)
    /\ CallBuild(HandlerProjectDir(args, projectDir), WantOf(op))
    /\ UNCHANGED <<appended, resolve, globals, op>>

\* executeGenerate
ExecuteGenerate ==
    /\ pc = "start"
    /\ op = "generate"
    /\ IF ArgMissing(args)
       THEN ReturnEarly(ArgNotSetError("workflow_name"))
       ELSE CallBuild(projectDir, WantOf(op))
    /\ UNCHANGED <<appended, resolve, globals, projectDir, op>>

\* executeRun
ExecuteRun ==
    /\ pc = "start"
    /\ op = "run"
    /\ IF ArgMissing(args)
       THEN ReturnEarly(ArgNotSetError("workflow_name"))
       ELSE CallBuild(projectDir, WantOf(op))
    /\ UNCHANGED <<appended, resolve, globals, projectDir, op>>

\* buildFlagsAndMountDirs called on its own with any five booleans.
BuildFlagsAndMountDirs ==
    /\ pc = "start"
    /\ op = "build"
    /\ CallBuild(projectDir, want)
    /\ UNCHANGED <<appended, resolve, globals, projectDir, op>>

\* The nested config query for key keyIdx returns: the rest of
\* appendConfigKeyMountDir (lines 71-82), then the loop of lines 103-108 and,
\* after the last key, lines 111-138 and the handler.
AppendConfigKeyMountDirReturn ==
    /\ pc = "query"
    /\ \E o \in QueryOutcomes, wdOk \in [1..3 -> BOOLEAN] :
      \E r \in {appendConfigKeyMountDir(globalConfigKeys[keyIdx], mountDirs, o)},
         callsNow \in {[calls EXCEPT ![Len(calls)] = ReturnedCall(@, o)]} :
          /\ appended' = [key |-> keyIdx, mountDirs |-> r.mountDirs, err |-> r.err]
          /\ IF QueryAborts(r.err)
            THEN /\ ReturnFromBuild(AbortBuild(r.mountDirs, r.err), callsNow)
                 /\ keyIdx' = keyIdx
            ELSE IF keyIdx < Len(globalConfigKeys)
            THEN /\ keyIdx' = keyIdx + 1
                 /\ InvokeQuery(keyIdx + 1, configFlags, flags, r.mountDirs, callsNow)
            ELSE /\ ReturnFromBuild(
                        LocalDirs(flags, r.mountDirs, want, airflowHome,
                                  airflowDagsFolder, dataDir, wdOk), callsNow)
                 /\ keyIdx' = keyIdx
    /\ UNCHANGED <<resolve, globals, projectDir, op, want, buildProjectDir, configFlags, created>>

\* The dispatched command returns: the rest of executeCmd (lines 147-154).
ExecuteCmdReturn ==
    /\ pc = "dispatch"
    /\ \E o \in ExecOutcomes :
        /\ calls' = [calls EXCEPT ![Len(calls)] = ReturnedCall(@, o)]
        /\ ret' = Returned(executeCmdErr(calls[Len(calls)].cmd, o))
    /\ pc' = "done"
    /\ UNCHANGED <<appended, resolve, globals, projectDir, op, args, want, buildProjectDir, flags,
                   mountDirs, configFlags, keyIdx, composed, created>>

\* executeHelp calls sql.ExecuteCmdInDocker(cmdString, nil, nil, nil, false).
ExecuteHelp ==
    /\ pc = "start"
    /\ op = "help"
    /\ calls' = Append(calls, Call(args, <<>>, EmptyFlags, <<>>, FALSE))
    /\ pc' = "help"
    /\ UNCHANGED <<appended, resolve, globals, projectDir, op, args, want, buildProjectDir, flags,
                   mountDirs, configFlags, keyIdx, composed, created, ret>>

\* The help command returns: the rest of executeHelp (lines 284-289).
ExecuteHelpReturn ==
    /\ pc = "help"
    /\ \E o \in ExecOutcomes :
        /\ calls' = [calls EXCEPT ![Len(calls)] = ReturnedCall(@, o)]
        /\ ret' = executeHelpOutcome(args, o)
    /\ pc' = "done"
    /\ UNCHANGED <<appended, resolve, globals, projectDir, op, args, want, buildProjectDir, flags,
                   mountDirs, configFlags, keyIdx, composed, created>>

Next ==
    \/ ExecuteBase
    \/ ExecuteInit
    \/ ExecuteConfig
    \/ ExecuteValidate
    \/ ExecuteGenerate
    \/ ExecuteRun
    \/ BuildFlagsAndMountDirs
    \/ AppendConfigKeyMountDirReturn
    \/ ExecuteCmdReturn
    \/ ExecuteHelp
    \/ ExecuteHelpReturn

Spec == Init /\ [][Next]_vars

\* The invocation with every call of sql.ExecuteCmdInDocker returning and
\* the process going on running its code: a step that can be taken is taken.
FairSpec == Spec /\ WF_vars(Next)

----------------------------------------------------------------------------
\* getAbsolutePath called on its own

\* The characters of the paths: the separator, the dot and a letter.
PathChars == {"/", ".", "p"}

\* getAbsolutePath has been called with some path, os.Getwd going to succeed
\* or not; no command runs.
InitGetAbsolutePath ==
    /\ resolve \in [state : {"called"}, path : SeqUpTo(PathChars, MaxPathLen),
                    wdOk : BOOLEAN, out : {<<>>}, err : {NoErr}]
    /\ op = "getAbsolutePath"
    /\ debug = FALSE
    /\ args = <<>>
    /\ projectDir = DefaultProjectDir
    /\ airflowHome = <<>>
    /\ airflowDagsFolder = <<>>
    /\ dataDir = <<>>
    /\ environment = DefaultEnvironment
    /\ connection = <<>>
    /\ verbose = FALSE
    /\ generateTasks = FALSE
    /\ noGenerateTasks = FALSE
    /\ want = NoWant
    /\ buildProjectDir = <<>>
    /\ flags = EmptyFlags
    /\ mountDirs = <<>>
    /\ configFlags = EmptyFlags
    /\ keyIdx = 0
    /\ composed = NotComposed
    /\ calls = <<>>
    /\ created = {}
    /\ pc = "done"
    /\ ret = NotReturned
    /\ appended = NotAppended

\* getAbsolutePath returns (lines 32-40).
GetAbsolutePathReturn ==
    /\ resolve.state = "called"
    /\ \E r \in {getAbsolutePath(resolve.path, resolve.wdOk)} :
          resolve' = [resolve EXCEPT !.state = "returned", !.out = r.path, !.err = r.err]
    /\ UNCHANGED <<globals, projectDir, op, args, want, buildProjectDir, flags,
                   mountDirs, configFlags, keyIdx, composed, calls, created, pc, ret,
                   appended>>

NextGetAbsolutePath == GetAbsolutePathReturn

SpecGetAbsolutePath == InitGetAbsolutePath /\ [][NextGetAbsolutePath]_vars

----------------------------------------------------------------------------
\* Properties

\* The absolute path of dir when the working directory can be read.
Resolved(dir) == IF IsAbs(dir) THEN dir ELSE Join(Cwd, dir)

\* The calls still waiting for sql.ExecuteCmdInDocker to return.
Active == {i \in DOMAIN calls : ~calls[i].returned}

\* A nested config query (the only calls that ask for the output).
IsQuery(c) == c.returnOutput

\* The query returned, with exit code 0 and an output that decoded.
QuerySucceeded(c) == c.returned /\ ~c.failed /\ c.exitCode = 0 /\ ~c.decodeFailed

\* C1: whenever buildFlagsAndMountDirs succeeds, for any five booleans and
\* any outcomes of the nested config queries, the first mount directory is
\* the resolved project directory; it is so from the base mounts on, whatever
\* is appended later, and executeInit and executeValidate hand it to
\* executeCmd as their positional argument.
C1_FirstMountIsProjectDir ==
    /\ composed.state = "ok" =>
          /\ Len(composed.mountDirs) >= 1
          /\ composed.mountDirs[1] = Resolved(projectDir)
    /\ pc \in {"query", "dispatch"} =>
          /\ Len(mountDirs) >= 1
          /\ mountDirs[1] = Resolved(projectDir)
    /\ (op \in {"init", "validate"} /\ pc \in {"dispatch", "done"} /\ calls # <<>>) =>
          /\ args[1] = Resolved(projectDir)
          /\ calls[1].args[1] = Resolved(projectDir)

\* C1's case: a relative project directory, all three global directories and
\* all three local directories appended after it.
C1_Witness ==
    /\ composed.state = "ok"
    /\ Len(composed.mountDirs) = 7
    /\ ~IsAbs(projectDir)

\* C2: the nested config queries are made in the order airflow_home,
\* airflow_dags_folder, data_dir, each only after every earlier one has
\* returned successfully; after a failed query no other is made.
C2_QueriesInKeyOrder ==
    \A i \in DOMAIN calls :
        IsQuery(calls[i]) =>
            /\ i <= 3
            /\ calls[i].cmd = <<"config">>
            /\ calls[i].args =
                  <<CASE i = 1 -> "airflow_home"
                      [] i = 2 -> "airflow_dags_folder"
                      [] OTHER -> "data_dir">>
            /\ \A j \in 1..(i - 1) : IsQuery(calls[j]) /\ QuerySucceeded(calls[j])
            /\ (calls[i].returned /\ ~QuerySucceeded(calls[i])) => i = Len(calls)

\* C2's case: the third key's query has failed after the first two.
C2_Witness ==
    /\ Len(calls) = 3
    /\ IsQuery(calls[3])
    /\ calls[3].returned
    /\ ~QuerySucceeded(calls[3])
    /\ pc = "done"

\* The outcome the call c returned.
OutcomeOf(c) ==
    [failed |-> c.failed, cause |-> c.cause, exitCode |-> c.exitCode,
     decodeFailed |-> c.decodeFailed, output |-> c.output]

\* buildFlagsAndMountDirs has returned the error of the nested config query
\* for key keyIdx.
QueryFailed ==
    /\ composed.state = "err"
    /\ keyIdx >= 1
    /\ Len(calls) = keyIdx
    /\ IsQuery(calls[keyIdx])
    /\ calls[keyIdx].returned
    /\ ~QuerySucceeded(calls[keyIdx])

\* C3 as claimed: the error of a failed nested config query identifies the
\* key, so the query of another key failing the same way gives another error.
C3_ErrorIdentifiesKey ==
    QueryFailed =>
        \A k \in DOMAIN globalConfigKeys \ {keyIdx} :
            appendConfigKeyMountDir(globalConfigKeys[k], <<>>,
                                    OutcomeOf(calls[keyIdx])).err # composed.err

\* C3 as amended: the error of a failed nested config query names the
\* command ["config"] and the cause (a transport error), or the exit code, or
\* is the decode error as it is; it does not name the key, and the query of
\* any other key failing the same way gives the same error.
C3_ErrorNamesCommandNotKey ==
    QueryFailed =>
        /\ \A k \in DOMAIN globalConfigKeys :
              appendConfigKeyMountDir(globalConfigKeys[k], <<>>,
                                      OutcomeOf(calls[keyIdx])).err = composed.err
        /\ ret.err = composed.err
        /\ composed.err.arg = ""
        /\ calls[keyIdx].failed =>
              /\ composed.err.kind = "running"
              /\ composed.err.cmd = <<"config">>
              /\ composed.err.cause = calls[keyIdx].cause
        /\ (~calls[keyIdx].failed /\ calls[keyIdx].exitCode # 0) =>
              /\ composed.err.kind = "nonzero"
              /\ composed.err.code = calls[keyIdx].exitCode
        /\ (~calls[keyIdx].failed /\ calls[keyIdx].exitCode = 0) =>
              composed.err.kind = "decode"

\* C3's case: the query of the second key has failed with a transport error.
C3_Witness ==
    /\ QueryFailed
    /\ keyIdx = 2
    /\ calls[2].failed

\* t is s without the white space around it.
IsTrimOf(t, s) ==
    \E a, b \in 0..Len(s) :
        /\ a + b <= Len(s)
        /\ t = SubSeq(s, a + 1, Len(s) - b)
        /\ \A i \in 1..a : IsSpace(s[i])
        /\ \A i \in (Len(s) - b + 1)..Len(s) : IsSpace(s[i])
        /\ t # <<>> => ~IsSpace(t[1]) /\ ~IsSpace(t[Len(t)])

\* C4: with setProjectDir and mountGlobalDirs, and no local directory
\* requested, a successful buildFlagsAndMountDirs returns the flags
\* {project-dir: resolved project directory} and the mounts
\* [resolved project directory, trim(d1), trim(d2), trim(d3)], the d's being
\* the outputs of the three queries in key order, duplicates kept.
C4_GlobalMountsResult ==
    ( /\ composed.state = "ok"
      /\ want.setProjectDir
      /\ want.mountGlobalDirs
      /\ ~want.setAirflowHome
      /\ ~want.setAirflowDagsFolder
      /\ ~want.setDataDir ) =>
        /\ DOMAIN composed.flags = {"project-dir"}
        /\ composed.flags["project-dir"] = Resolved(projectDir)
        /\ Len(composed.mountDirs) = 4
        /\ composed.mountDirs[1] = Resolved(projectDir)
        /\ \A i \in 1..3 :
              /\ IsQuery(calls[i])
              /\ IsTrimOf(composed.mountDirs[i + 1], calls[i].output)

\* C4's case: the three queries succeeded and two of them gave the same
\* directory.
C4_Witness ==
    /\ composed.state = "ok"
    /\ op = "generate"
    /\ calls[1].output = calls[3].output
    /\ calls[1].output # calls[2].output
    /\ composed.mountDirs[2] = composed.mountDirs[4]

\* The local directories buildFlagsAndMountDirs is asked for: flag name,
\* whether it is requested, and its value.
LocalDirFlags ==
    << [name |-> "airflow-home", requested |-> want.setAirflowHome, dir |-> airflowHome],
       [name |-> "airflow-dags-folder", requested |-> want.setAirflowDagsFolder,
        dir |-> airflowDagsFolder],
       [name |-> "data-dir", requested |-> want.setDataDir, dir |-> dataDir] >>

\* The resolved path of a local directory that is requested and not empty.
ExpectedLocal(l) == IF l.requested /\ l.dir # <<>> THEN <<Resolved(l.dir)>> ELSE <<>>

\* C5: a successful buildFlagsAndMountDirs sets the flag of a local directory
\* and appends its resolved path exactly when the directory is requested and
\* not empty; these mounts come after the project directory and the global
\* directories, in the order airflow-home, airflow-dags-folder, data-dir.
C5_LocalDirsResult ==
    composed.state = "ok" =>
        /\ \A i \in 1..3 :
              /\ LocalDirFlags[i].name \in DOMAIN composed.flags
                    <=> (LocalDirFlags[i].requested /\ LocalDirFlags[i].dir # <<>>)
              /\ LocalDirFlags[i].name \in DOMAIN composed.flags =>
                    composed.flags[LocalDirFlags[i].name] = Resolved(LocalDirFlags[i].dir)
        /\ SubSeq(composed.mountDirs, (IF want.mountGlobalDirs THEN 5 ELSE 2),
                  Len(composed.mountDirs))
              = ExpectedLocal(LocalDirFlags[1]) \o ExpectedLocal(LocalDirFlags[2])
                    \o ExpectedLocal(LocalDirFlags[3])

\* C5's case: init with an airflow home and a data directory and no DAGs
\* folder.
C5_Witness ==
    /\ composed.state = "ok"
    /\ op = "init"
    /\ airflowHome # <<>>
    /\ airflowDagsFolder = <<>>
    /\ dataDir # <<>>
    /\ DOMAIN composed.flags = {"airflow-home", "data-dir"}
    /\ Len(composed.mountDirs) = 3

\* The flags whose value is a path.
PathFlags == {"project-dir", "airflow-home", "airflow-dags-folder", "data-dir"}

AllAbsolute(f, dirs) ==
    /\ \A i \in DOMAIN dirs : IsAbs(dirs[i])
    /\ \A n \in DOMAIN f \cap PathFlags : IsAbs(f[n])

\* C6 as claimed: every path in the mount directories and every path-valued
\* flag, in the locals and in every call of sql.ExecuteCmdInDocker, is
\* absolute.
C6_AllPathsAbsolute ==
    /\ AllAbsolute(flags, mountDirs)
    /\ AllAbsolute(configFlags, <<>>)
    /\ \A i \in DOMAIN calls : AllAbsolute(calls[i].flags, calls[i].mountDirs)

\* C7: config without its key, and generate and run without a workflow
\* name, return the argument-not-set error naming the argument, and make no
\* call of sql.ExecuteCmdInDocker (and no directory) at all.
C7_MissingArgumentNoCall ==
    (op \in {"config", "generate", "run"} /\ Len(args) = 0) =>
        /\ calls = <<>>
        /\ created = {}
        /\ composed.state = "none"
        /\ pc \in {"start", "done"}
        /\ pc = "done" =>
              /\ ret.kind = "err"
              /\ ret.err.kind = "argnotset"
              /\ ret.err.arg = (IF op = "config" THEN "key" ELSE "workflow_name")

\* C7's case: generate without a workflow name has returned.
C7_Witness ==
    /\ op = "generate"
    /\ Len(args) = 0
    /\ pc = "done"
    /\ ret.err.arg = "workflow_name"

\* C8: a call that returns exit code c # 0 and no transport error makes the
\* nested config query (and so buildFlagsAndMountDirs and the handler) and
\* executeCmd return the non-zero-exit error that carries exactly c.
C8_NonZeroExitKeepsCode ==
    \A i \in DOMAIN calls :
        (op # "help" /\ calls[i].returned /\ ~calls[i].failed /\ calls[i].exitCode # 0) =>
            /\ i = Len(calls)
            /\ pc = "done"
            /\ ret.kind = "err"
            /\ ret.err.kind = "nonzero"
            /\ ret.err.code = calls[i].exitCode
            /\ IsQuery(calls[i]) => composed.err = ret.err
            /\ ~IsQuery(calls[i]) => composed.state = "ok"

\* C8's case: the dispatched command has returned exit code 2.
C8_Witness ==
    /\ pc = "done"
    /\ op = "run"
    /\ Len(calls) = 4
    /\ ~calls[4].failed
    /\ calls[4].exitCode = 2
    /\ ret.err.code = 2

\* The call returned a transport error or a non-zero exit code.
CallFailed(c) == c.returned /\ (c.failed \/ c.exitCode # 0)

\* C9: a transport error or a non-zero exit code makes the process panic
\* exactly in executeHelp; in the command handlers it is returned as an error.
C9_PanicOnlyInHelp ==
    /\ ret.kind = "panic" => op = "help"
    /\ \A i \in DOMAIN calls :
          CallFailed(calls[i]) =>
              /\ pc = "done"
              /\ ret.kind = (IF op = "help" THEN "panic" ELSE "err")
              /\ ret.err # NoErr

\* C9's case: executeHelp has panicked on a non-zero exit code.
C9_Witness ==
    /\ op = "help"
    /\ ret.kind = "panic"
    /\ ret.err.kind = "nonzero"

\* C10: at most one call of sql.ExecuteCmdInDocker is waiting at a time, and
\* the dispatched command is called only after every nested config query,
\* all of which have returned successfully.
C10_OneCallAtATime ==
    /\ Cardinality(Active) <= 1
    /\ Active # {} => Active = {Len(calls)}
    /\ \A i \in DOMAIN calls :
          ~IsQuery(calls[i]) =>
              /\ i = Len(calls)
              /\ \A j \in DOMAIN calls \ {i} :
                    IsQuery(calls[j]) /\ QuerySucceeded(calls[j])

\* C10's case: the dispatched command is waiting after three queries.
C10_Witness ==
    /\ pc = "dispatch"
    /\ Len(calls) = 4
    /\ Active = {4}

\* The call returned and did not succeed (a nested config query also fails
\* when its output cannot be decoded).
StepFailed(c) == c.returned /\ (c.failed \/ c.exitCode # 0 \/ c.decodeFailed)

\* C11: nothing is retried.  Each global key is queried at most once and the
\* command is dispatched at most once; a call that failed is the last call
\* made and the invocation has ended with an error; and when path resolution
\* or the creation of the project directory failed, the invocation has ended
\* with that error, every call made before it was a query that succeeded,
\* and no command was dispatched.
C11_NothingRetried ==
    /\ \A i, j \in DOMAIN calls :
          (i # j /\ IsQuery(calls[i]) /\ IsQuery(calls[j])) => calls[i].args # calls[j].args
    /\ Cardinality({i \in DOMAIN calls : ~IsQuery(calls[i])}) <= 1
    /\ \A i \in DOMAIN calls :
          StepFailed(calls[i]) =>
              /\ i = Len(calls)
              /\ pc = "done"
              /\ ret.kind \in {"err", "panic"}
              /\ ret.err # NoErr
              /\ op # "help" => (IsQuery(calls[i]) <=> composed.state = "err")
    /\ composed.state = "err" =>
          /\ pc = "done"
          /\ ret = [kind |-> "err", err |-> composed.err]
          /\ \A i \in DOMAIN calls : IsQuery(calls[i]) /\ calls[i].returned
          /\ composed.err.kind \in {"getwd", "mkdir"} =>
                \A i \in DOMAIN calls : QuerySucceeded(calls[i])
          /\ composed.err.kind = "mkdir" => calls = <<>>

\* C11's case: the second key's query returned exit code 1 and the
\* invocation ended there, with two calls made.
C11_Witness ==
    /\ pc = "done"
    /\ Len(calls) = 2
    /\ IsQuery(calls[2])
    /\ ~calls[2].failed
    /\ calls[2].exitCode = 1
    /\ ret.err = DockerNonZeroExitCodeError(1)

\* C12 as claimed: when a nested config query fails, buildFlagsAndMountDirs
\* returns, with the error, the mount directories built so far: the project
\* directory and the directories of the keys that succeeded.
C12_PartialListReturned ==
    QueryFailed =>
        /\ composed.mountDirs = calls[keyIdx].mountDirs
        /\ composed.err # NoErr

\* C12 as amended: when a nested config query fails,
\* buildFlagsAndMountDirs stops there and returns no flags and no mount
\* directories (nil, nil) with the error of the query; the list built so far
\* (the project directory and the directories of the keys that succeeded)
\* is what the failed query was called with and is dropped.
C12_NothingReturnedWithError ==
    QueryFailed =>
        /\ composed.mountDirs = <<>>
        /\ composed.flags = EmptyFlags
        /\ composed.err # NoErr
        /\ composed.err =
              appendConfigKeyMountDir(globalConfigKeys[keyIdx], calls[keyIdx].mountDirs,
                                      OutcomeOf(calls[keyIdx])).err
        /\ Len(calls[keyIdx].mountDirs) = keyIdx
        /\ calls[keyIdx].mountDirs[1] = Resolved(projectDir)
        /\ \A j \in 1..(keyIdx - 1) :
              calls[keyIdx].mountDirs[j + 1] = TrimSpace(calls[j].output)
        /\ ret = [kind |-> "err", err |-> composed.err]

\* C12's case: the third key's query could not be decoded after two keys
\* had given their directories.
C12_Witness ==
    /\ QueryFailed
    /\ keyIdx = 3
    /\ calls[3].decodeFailed
    /\ Len(calls[3].mountDirs) = 3
    /\ composed.mountDirs = <<>>

\* C13: executeCmd calls sql.ExecuteCmdInDocker with the command tokens
\* [name], or ["--debug", name] when debug is set, and never asks for the
\* output; a nested config query is called with the tokens ["config"]
\* (whatever debug is), the key as its only positional argument, and asks
\* for the output.  The first keyIdx calls are the queries, the one after
\* them is executeCmd's.
C13_CommandTokens ==
    op \in Commands \cup {"build"} =>
        \A i \in DOMAIN calls :
            IF i <= keyIdx
            THEN /\ calls[i].cmd = <<"config">>
                 /\ calls[i].args = <<globalConfigKeys[i]>>
                 /\ calls[i].returnOutput
            ELSE /\ calls[i].cmd = (IF debug THEN <<"--debug", op>> ELSE <<op>>)
                 /\ ~calls[i].returnOutput

\* C13's case: run with --debug has dispatched ["--debug", "run"] after
\* three queries with the tokens ["config"].
C13_Witness ==
    /\ op = "run"
    /\ debug
    /\ Len(calls) = 4
    /\ calls[1].cmd = <<"config">>
    /\ calls[4].cmd = <<"--debug", "run">>
    /\ ~calls[4].returnOutput

\* C14: each handler calls buildFlagsAndMountDirs with its row of booleans,
\* so an invocation that succeeded has made four calls for generate and run
\* (the three queries, then the command) and one call (the command) for
\* about, version, init, config and validate; the flags of the dispatched
\* command have project-dir exactly for config, generate and run.
C14_CallsPerOperation ==
    /\ (op \in Commands /\ (composed.state # "none" \/ pc = "query")) =>
          /\ want.setProjectDir <=> op \in {"config", "generate", "run"}
          /\ want.mountGlobalDirs <=> op \in {"generate", "run"}
          /\ want.setAirflowHome <=> op = "init"
          /\ want.setAirflowDagsFolder <=> op = "init"
          /\ want.setDataDir <=> op = "init"
    /\ (op \in Commands /\ pc \in {"dispatch", "done"} /\ composed.state = "ok") =>
          /\ Len(calls) = (IF op \in {"generate", "run"} THEN 4 ELSE 1)
          /\ \A i \in 1..(Len(calls) - 1) : IsQuery(calls[i]) /\ QuerySucceeded(calls[i])
          /\ ~IsQuery(calls[Len(calls)])
          /\ "project-dir" \in DOMAIN calls[Len(calls)].flags
                <=> op \in {"config", "generate", "run"}
    /\ (op \in Commands /\ ret.kind = "ok") =>
          /\ composed.state = "ok"
          /\ \A i \in DOMAIN calls : calls[i].returned

\* C14's case: validate has succeeded with one call, whose flags have no
\* project-dir.
C14_Witness ==
    /\ op = "validate"
    /\ ret.kind = "ok"
    /\ Len(calls) = 1
    /\ "project-dir" \notin DOMAIN calls[1].flags

\* The flags of the dispatched command are as C15 says.
EnvAndConnection(f) ==
    /\ "env" \in DOMAIN f
          <=> (op \in {"config", "validate", "generate", "run"} /\ environment # <<>>)
    /\ "env" \in DOMAIN f => f["env"] = environment
    /\ "connection" \in DOMAIN f <=> (op = "validate" /\ connection # <<>>)
    /\ "connection" \in DOMAIN f => f["connection"] = connection

\* C15: the flags of the dispatched command have env exactly when the
\* command is config, validate, generate or run and the environment is not
\* empty, with the environment as its value; they have connection exactly
\* when the command is validate and the connection is not empty; about,
\* version and init dispatch neither, although the environment then holds
\* its default.
C15_EnvAndConnectionFlags ==
    \A i \in DOMAIN calls :
        (op \in Commands /\ i > keyIdx) =>
            /\ EnvAndConnection(calls[i].flags)
            /\ op \in {"about", "version", "init"} =>
                  /\ environment = DefaultEnvironment
                  /\ DOMAIN calls[i].flags \cap {"env", "connection"} = {}

\* C15's case: validate has dispatched both an environment and a connection.
C15_Witness ==
    /\ op = "validate"
    /\ Len(calls) = 1
    /\ environment = <<"d", "e", "v">>
    /\ DOMAIN calls[1].flags = {"env", "connection"}
    /\ calls[1].flags["env"] = <<"d", "e", "v">>

\* C16: getAbsolutePath returns an absolute path as it is; returns
\* filepath.Join of the working directory and the path for every path that
\* is not absolute, the empty one and "." included (for which that is the
\* working directory itself); and returns an error, and the empty path with
\* it, exactly when the path is not absolute and os.Getwd fails.
C16_PathResolver ==
    resolve.state = "returned" =>
        /\ (resolve.path # <<>> /\ resolve.path[1] = "/") =>
              /\ resolve.out = resolve.path
              /\ resolve.err = NoErr
        /\ ((resolve.path = <<>> \/ resolve.path[1] # "/") /\ resolve.wdOk) =>
              /\ resolve.out = Join(Cwd, resolve.path)
              /\ resolve.out[1] = "/"
              /\ resolve.err = NoErr
        /\ (resolve.path \in {<<>>, <<".">>} /\ resolve.wdOk) => resolve.out = Cwd
        /\ resolve.err # NoErr
              <=> ((resolve.path = <<>> \/ resolve.path[1] # "/") /\ ~resolve.wdOk)
        /\ resolve.err # NoErr =>
              /\ resolve.out = <<>>
              /\ resolve.err.kind = "getwd"

\* C16's case: a relative path that starts with "./" has been joined to the
\* working directory.
C16_Witness ==
    /\ resolve.state = "returned"
    /\ resolve.path = <<".", "/", "p">>
    /\ resolve.wdOk
    /\ resolve.out = <<"/", "w", "/", "p">>

\* C17 as claimed: whether setProjectDir is set or not, every nested config
\* query is called with flags that have project-dir, its value the resolved,
\* absolute project directory.
C17_QueryFlagsResolved ==
    \A i \in DOMAIN calls :
        (op \in Commands \cup {"build"} /\ i <= keyIdx) =>
            /\ "project-dir" \in DOMAIN calls[i].flags
            /\ calls[i].flags["project-dir"] = Resolved(projectDir)

\* The mount directories the k-th query is called with: the resolved project
\* directory, then the trimmed outputs of the k-1 queries before it.
MountsBefore(k) ==
    [j \in 1..k |-> IF j = 1 THEN Resolved(projectDir) ELSE TrimSpace(calls[j - 1].output)]

\* C18: the k-th nested config query is called with the resolved project
\* directory followed by the trimmed outputs of the first k-1 queries, in key
\* order; when it succeeds, the list it returns (the local mountDirs, which
\* the next call is made with) is that list with one element appended, the
\* trimmed output of the k-th query.
C18_MountsAccumulate ==
    \A k \in DOMAIN calls :
        (op \in Commands \cup {"build"} /\ k <= keyIdx) =>
            /\ calls[k].mountDirs = MountsBefore(k)
            /\ (k = keyIdx /\ pc = "query") => mountDirs = calls[k].mountDirs
            /\ (QuerySucceeded(calls[k]) /\ k < Len(calls)) =>
                  /\ Len(calls[k + 1].mountDirs) = k + 1
                  /\ calls[k + 1].mountDirs = MountsBefore(k + 1)
                  /\ SubSeq(calls[k + 1].mountDirs, 1, k) = calls[k].mountDirs
                  /\ IsTrimOf(calls[k + 1].mountDirs[k + 1], calls[k].output)
            /\ (QuerySucceeded(calls[k]) /\ k = 3 /\ composed.state = "ok") =>
                  SubSeq(composed.mountDirs, 1, 4) = MountsBefore(4)

\* C18's case: the third query has been called with the project directory
\* and two different directories that the first two queries gave.
C18_Witness ==
    /\ keyIdx = 3
    /\ pc = "query"
    /\ Len(calls[3].mountDirs) = 3
    /\ calls[3].mountDirs[2] = <<"/", "a">>
    /\ calls[3].mountDirs[3] = <<"b">>

\* buildFlagsAndMountDirs has been entered and executeCmd has not returned.
Composing == pc \in {"query", "dispatch"}

\* C19: while buildFlagsAndMountDirs and executeCmd run, no process-wide
\* flag variable is assigned (line 93 assigns the parameter projectDir, not
\* the variable).  The only assignment there is, executeInit's and
\* executeValidate's of their positional argument to projectDir, is made
\* in the handler before buildFlagsAndMountDirs is entered, which therefore
\* works on the new value; the other nine variables are never assigned.
C19_GlobalsReadOnly ==
    [][ /\ globals' = globals
        /\ Composing => projectDir' = projectDir
        /\ (pc = "start" /\ op \in {"init", "validate"} /\ Len(args) > 0) =>
              /\ projectDir' = args[1]
              /\ created' \subseteq {Resolved(projectDir')}
              /\ composed'.state = "ok" => composed'.mountDirs[1] = Resolved(projectDir')
        /\ projectDir' # projectDir =>
              (pc = "start" /\ op \in {"init", "validate"} /\ Len(args) > 0) ]_vars

\* C19's case: validate has taken its project directory from the positional
\* argument and dispatched the command.
C19_Witness ==
    /\ op = "validate"
    /\ pc = "dispatch"
    /\ Len(calls) = 1
    /\ projectDir = <<"/", "p">>
    /\ calls[1].mountDirs = << <<"/", "p">> >>

\* C20: when every call of sql.ExecuteCmdInDocker returns, every invocation
\* comes to its end (nil or an error returned, or the panic of executeHelp),
\* having made at most four calls; there is nothing it waits for or repeats.
C20_Terminates ==
    /\ <>(pc = "done" /\ ret.kind \in {"ok", "err", "panic"})
    /\ [](Len(calls) <= 4)
    /\ [](pc = "done" => \A i \in DOMAIN calls : calls[i].returned)

\* C20's case: generate has returned nil after its four calls.
C20_Witness ==
    /\ op = "generate"
    /\ pc = "done"
    /\ ret.kind = "ok"
    /\ Len(calls) = 4
    /\ \A i \in 1..4 : calls[i].returned

\* C21: a nested config query that fails, by a transport error, a non-zero
\* exit code or an output that cannot be decoded, returns the mount
\* directories it was called with, nothing appended; one directory (the
\* trimmed output) is appended exactly when the sub-invocation returned
\* without error, with exit code 0 and an output that decoded.
C21_FailedQueryAppendsNothing ==
    appended.key >= 1 =>
        /\ calls[appended.key].returned
        /\ StepFailed(calls[appended.key]) =>
              /\ appended.mountDirs = calls[appended.key].mountDirs
              /\ appended.err # NoErr
        /\ ~StepFailed(calls[appended.key]) =>
              /\ appended.mountDirs
                    = Append(calls[appended.key].mountDirs,
                             TrimSpace(calls[appended.key].output))
              /\ appended.err = NoErr
        /\ Len(appended.mountDirs) # Len(calls[appended.key].mountDirs)
              <=> ( /\ ~calls[appended.key].failed
                    /\ calls[appended.key].exitCode = 0
                    /\ ~calls[appended.key].decodeFailed )

\* C21's case: the second key's output could not be decoded, and the query
\* returned the two directories it was called with.
C21_Witness ==
    /\ appended.key = 2
    /\ calls[2].decodeFailed
    /\ Len(appended.mountDirs) = 2
    /\ appended.mountDirs = calls[2].mountDirs
    /\ appended.err = ErrDecode

\* C22: when sql.ExecuteCmdInDocker returns an error together with a
\* non-zero exit code, the error wins: the nested config query and executeCmd
\* return "error running <command>" wrapping it, the command being ["config"]
\* for a query and the dispatched tokens for executeCmd, and not the
\* non-zero-exit error; the exit code is in no part of what is returned.
C22_TransportErrorFirst ==
    \A i \in DOMAIN calls :
        ( /\ op \in Commands \cup {"build"}
          /\ calls[i].returned
          /\ calls[i].failed
          /\ calls[i].exitCode # 0 ) =>
            /\ pc = "done"
            /\ ret.kind = "err"
            /\ ret.err = ErrRunning(calls[i].cmd, calls[i].cause)
            /\ ret.err.kind # "nonzero"
            /\ ret.err.code = 0
            /\ IsQuery(calls[i]) =>
                  /\ ret.err.cmd = <<"config">>
                  /\ appended.err = ret.err
                  /\ composed.err = ret.err
            /\ ~IsQuery(calls[i]) => ret.err.cmd = (IF debug THEN <<"--debug", op>> ELSE <<op>>)

\* C22's case: the command config dispatched returned an error and exit
\* code 2, and the handler returned the error running it.
C22_Witness ==
    /\ op = "config"
    /\ pc = "done"
    /\ Len(calls) = 1
    /\ calls[1].failed
    /\ calls[1].exitCode = 2
    /\ ret.err.kind = "running"

\* How many mount directories a successful buildFlagsAndMountDirs returns
\* apart from the project directory: the three global ones when asked for,
\* and each local one that is requested and not empty.
OtherMounts ==
    (IF want.mountGlobalDirs THEN 3 ELSE 0)
    + Len(ExpectedLocal(LocalDirFlags[1])) + Len(ExpectedLocal(LocalDirFlags[2]))
    + Len(ExpectedLocal(LocalDirFlags[3]))

\* C23: when buildFlagsAndMountDirs succeeds with setProjectDir, the
\* project-dir flag is the first mount directory, both being the resolved
\* project directory; and setting the flag mounts nothing: with or without
\* setProjectDir the mount directories are the project directory, once, and
\* the global and local ones.
C23_ProjectDirFlagIsFirstMount ==
    composed.state = "ok" =>
        /\ "project-dir" \in DOMAIN composed.flags <=> want.setProjectDir
        /\ want.setProjectDir =>
              /\ composed.flags["project-dir"] = composed.mountDirs[1]
              /\ composed.flags["project-dir"] = Resolved(projectDir)
        /\ Len(composed.mountDirs) = 1 + OtherMounts
        /\ (want.setProjectDir /\ OtherMounts = 0) =>
              composed.mountDirs = <<composed.flags["project-dir"]>>

\* C23's case: config with a relative project directory, which is the flag
\* and the only mount.
C23_Witness ==
    /\ op = "config"
    /\ composed.state = "ok"
    /\ projectDir = <<"p", "/">>
    /\ composed.flags["project-dir"] = <<"/", "w", "/", "p">>
    /\ composed.mountDirs = << <<"/", "w", "/", "p">> >>

\* C24: the positional arguments executeInit and executeValidate hand to
\* executeCmd are made anew from what buildFlagsAndMountDirs returned: the
\* first is the first mount directory, the resolved absolute project
\* directory, whatever the user gave (a relative path, or nothing at all);
\* validate adds the bare token --verbose when verbose is set and nothing
\* else; init dispatches the one argument.
C24_InitValidateArgs ==
    (op \in {"init", "validate"} /\ calls # <<>>) =>
        /\ Len(calls) = 1
        /\ calls[1].args
              = <<calls[1].mountDirs[1]>>
                    \o (IF op = "validate" /\ verbose THEN <<VerboseToken>> ELSE <<>>)
        /\ calls[1].args[1] = Resolved(projectDir)
        /\ calls[1].args[1][1] = "/"
        /\ op = "init" => Len(calls[1].args) = 1
        /\ args = calls[1].args

\* C24's case: validate --verbose with a relative directory as its
\* argument has dispatched the absolute directory and the token.
C24_Witness ==
    /\ op = "validate"
    /\ verbose
    /\ projectDir = <<"p", "/">>
    /\ Len(calls) = 1
    /\ calls[1].args = << <<"/", "w", "/", "p">>, VerboseToken >>

====
